---- MODULE Spec2Model ----
(***************************************************************************)
(* A model of dirsnap: the snapshot diff engine (compute_diffs), the       *)
(* persistence of the snapshot file (load_metadata / save_metadata), the   *)
(* scan pipeline of filesystem.py and the run sequence of main.            *)
(*                                                                         *)
(* Strings (paths, hex digests, file contents) are sequences of naturals   *)
(* (code points / bytes); Python's string order is LexLess.  Python's None *)
(* is the empty tuple; the MetaEntry fields that compute_diffs reads with  *)
(* .get and compares with None ("hash", "size") hold <<v>> for a value v.  *)
(***************************************************************************)
EXTENDS Naturals, Sequences, FiniteSets, TLC

VARIABLES
    old_metadata,   \* main: old_metadata / compute_diffs: old_data
    new_metadata,   \* main: new_metadata / compute_diffs: new_data
    diffs,          \* the MetaDiffs returned by compute_diffs
    dpc,            \* position of the stand-alone compute_diffs caller
    tree,           \* the scanned subdirectory: relative path -> file
    dirExists,      \* whether root/subdir is a directory
    files,          \* the snapshot path and its temp path: name -> content
    pc,             \* position of the running main
    cfg,            \* the parsed arguments of the running main
    exitCode,       \* exit status of the last terminated run
    outcome,        \* how the last run ended: completed, raised or killed
    raisedAt,       \* the call that raised in the last run
    prevRun,        \* history: what the run before this one left behind
    treeChanged,    \* history: the tree changed since the last run ended
    metaAtStart,    \* history: the snapshot file when this run started
    readerSaw,      \* what a concurrent reader of the snapshot path observed
    nRuns,          \* number of runs started
    nEnvOps         \* number of changes made to the tree

diffVars == <<old_metadata, new_metadata, diffs, dpc>>
mainVars == <<tree, dirExists, files, pc, cfg, exitCode, outcome, raisedAt,
              prevRun, treeChanged, metaAtStart, readerSaw, nRuns, nEnvOps>>
vars == <<old_metadata, new_metadata, diffs, dpc, tree, dirExists, files, pc,
          cfg, exitCode, outcome, raisedAt, prevRun, treeChanged, metaAtStart,
          readerSaw, nRuns, nEnvOps>>

----------------------------------------------------------------------------
(* Bounds *)

MaxEntries == 4     \* entries of the two snapshots given to compute_diffs
MaxFiles == 2       \* files in the scanned tree
MaxRuns == 2        \* runs of main in one behaviour
MaxEnvOps == 1      \* changes to the tree in one behaviour

\* Relative paths "a", "ab", "b", "ba".
Paths == {<<1>>, <<1, 2>>, <<2>>, <<2, 1>>}

\* The paths a file of the scanned tree may have: "a", "b", "ba".
TreePaths == {<<1>>, <<2>>, <<2, 1>>}

----------------------------------------------------------------------------
(* Python values *)

None == <<>>
Some(v) == <<v>>

Min(a, b) == IF a <= b THEN a ELSE b

\* str.__lt__ : code-point-wise lexicographic order, a proper prefix is smaller.
LexLess(a, b) ==
    \E i \in 1..(Min(Len(a), Len(b)) + 1) :
        /\ \A j \in 1..(i - 1) : a[j] = b[j]
        /\ IF i > Len(a) THEN i <= Len(b)
           ELSE IF i > Len(b) THEN FALSE
           ELSE a[i] < b[i]

\* sorted(S) for a set of strings.
RECURSIVE Sorted(_)
Sorted(S) ==
    IF S = {} THEN <<>>
    ELSE LET m == CHOOSE x \in S : \A y \in S : x = y \/ LexLess(x, y)
         IN  <<m>> \o Sorted(S \ {m})

\* list(zip(s, t))
Zip(s, t) == [i \in 1..Min(Len(s), Len(t)) |-> <<s[i], t[i]>>]

Range(s) == {s[i] : i \in 1..Len(s)}

\* dict.get(key) on a MetaEntry: None when the key is missing.
Get(e, key) == IF key \in DOMAIN e THEN e[key] ELSE None

----------------------------------------------------------------------------
(* metadata_manager.compute_diffs *)

\* Mutant: the null hashes are not dropped (None indexed as the empty digest).
index_by_hash_keeps_null(data, paths) ==
    LET key(p) == IF Get(data[p], "hash") = None THEN <<>>
                  ELSE Get(data[p], "hash")[1]
    IN  [h \in {key(p) : p \in paths} |-> {p \in paths : key(p) = h}]

\* index_by_hash: hash -> the paths of `paths` carrying it, null hashes dropped.
\* The order inside a group is never used: every use sorts the group.
index_by_hash(data, paths) ==
    LET non_null == {p \in paths : Get(data[p], "hash") # None}
        hashes   == {Get(data[p], "hash")[1] : p \in non_null}
    IN  [h \in hashes |-> {p \in non_null : Get(data[p], "hash") = Some(h)}]

\* Mutant: the old paths are taken in descending order.
pair_up_descending(olds, news) ==
    LET o == Sorted(olds)
    IN  Zip([i \in 1..Len(o) |-> o[Len(o) + 1 - i]], Sorted(news))

\* zip(sorted(removed_by_hash[h]), sorted(added_by_hash[h]))
pair_up(olds, news) == Zip(Sorted(olds), Sorted(news))

\* chain.from_iterable(map(lambda h: zip(sorted(..), sorted(..)), hs))
RECURSIVE moves_chain(_, _, _)
moves_chain(hs, removed_by_hash, added_by_hash) ==
    IF hs = <<>> THEN <<>>
    ELSE pair_up(removed_by_hash[Head(hs)], added_by_hash[Head(hs)])
         \o moves_chain(Tail(hs), removed_by_hash, added_by_hash)

\* Mutant: a differing size always counts, also when both hashes are known.
is_modified_size_always(old_data, new_data, p) ==
    \/ Get(old_data[p], "hash") # Get(new_data[p], "hash")
    \/ Get(old_data[p], "size") # Get(new_data[p], "size")

\* Mutant: a changed modification time counts as a modification.
is_modified_by_mtime(old_data, new_data, p) ==
    LET oh == Get(old_data[p], "hash")
        nh == Get(new_data[p], "hash")
        both_hashes == (oh # None) /\ (nh # None)
    IN  \/ both_hashes /\ oh # nh
        \/ ~both_hashes /\ Get(old_data[p], "size") # Get(new_data[p], "size")
        \/ Get(old_data[p], "time_last_update_ns")
               # Get(new_data[p], "time_last_update_ns")

\* The hashes are compared, not the timestamps; without both hashes the sizes.
is_modified(old_data, new_data, p) ==
    LET oh == Get(old_data[p], "hash")
        nh == Get(new_data[p], "hash")
        both_hashes == (oh # None) /\ (nh # None)
    IN  \/ both_hashes /\ oh # nh
        \/ ~both_hashes /\ Get(old_data[p], "size") # Get(new_data[p], "size")

\* modified = sorted(filter(is_modified, common))
modified_of(old_data, new_data) ==
    Sorted({p \in DOMAIN old_data \cap DOMAIN new_data :
               is_modified(old_data, new_data, p)})

\* moved = moves_list, in the order the chain produced it.
moved_list(moves_list) == moves_list

\* Mutant: the new paths of the moved pairs stay in added.
added_final_keeps_moved(added0, moved_new) == Sorted(added0)

\* added = sorted(added0 - moved_new)
added_final(added0, moved_new) == Sorted(added0 \ moved_new)

\* removed = sorted(removed0 - moved_old)
removed_final(removed0, moved_old) == Sorted(removed0 \ moved_old)

compute_diffs(old_data, new_data) ==
    LET old_paths == DOMAIN old_data
        new_paths == DOMAIN new_data
        added0    == new_paths \ old_paths
        removed0  == old_paths \ new_paths
        added_by_hash   == index_by_hash(new_data, added0)
        removed_by_hash == index_by_hash(old_data, removed0)
        common_hashes == Sorted(DOMAIN added_by_hash \cap DOMAIN removed_by_hash)
        moves_list == moves_chain(common_hashes, removed_by_hash, added_by_hash)
        moved_old == {t[1] : t \in Range(moves_list)}
        moved_new == {t[2] : t \in Range(moves_list)}
    IN  [added    |-> added_final(added0, moved_new),
         removed  |-> removed_final(removed0, moved_old),
         moved    |-> moved_list(moves_list),
         modified |-> modified_of(old_data, new_data)]

----------------------------------------------------------------------------
(* filesystem.py: the scan pipeline *)

\* A file of the tree: [content: bytes, readable, mtime]; st_size = Len(content).

\* scan_subdir: one FileEntry per regular file, none when subdir is no directory.
\* The entry's `path` handle is the relative path itself.
scan_subdir(t, isDir) ==
    IF ~isDir THEN {}
    ELSE {[relative_path |-> p, size |-> Len(t[p].content),
           time_last_update_ns |-> t[p].mtime] : p \in DOMAIN t}

\* Glob patterns are sequences of tokens: a literal character, ? or *.
Lit(c) == [k |-> "lit", c |-> c]
Quest == [k |-> "any", c |-> 0]
Star == [k |-> "star", c |-> 0]

\* fnmatch.fnmatch(name, pat) (POSIX: no case folding; * also crosses "/").
RECURSIVE fnmatch(_, _)
fnmatch(name, pat) ==
    IF pat = <<>> THEN name = <<>>
    ELSE IF Head(pat).k = "star"
         THEN \E n \in 0..Len(name) :
                  fnmatch(SubSeq(name, n + 1, Len(name)), Tail(pat))
    ELSE IF name = <<>> THEN FALSE
    ELSE IF Head(pat).k = "any" THEN fnmatch(Tail(name), Tail(pat))
    ELSE Head(pat).c = Head(name) /\ fnmatch(Tail(name), Tail(pat))

matches_any(path, patterns) ==
    \E i \in 1..Len(patterns) : fnmatch(path, patterns[i])

filter_patterns(entries, patterns) ==
    IF patterns = <<>> THEN entries
    ELSE {item \in entries : ~matches_any(item.relative_path, patterns)}

\* hashlib.sha256(...).hexdigest(): collision-free on the contents used here
\* (the length, then the bytes in reverse).
hexdigest(bytes) ==
    [i \in 1..(Len(bytes) + 1) |->
        IF i = 1 THEN Len(bytes) ELSE bytes[Len(bytes) + 2 - i]]

\* while chunk := f.read(chunk_size): h.update(chunk)
RECURSIVE read_chunks(_, _, _)
read_chunks(rest, chunk_size, h) ==
    LET chunk == SubSeq(rest, 1, Min(chunk_size, Len(rest)))
    IN  IF chunk = <<>> THEN h
        ELSE read_chunks(SubSeq(rest, Len(chunk) + 1, Len(rest)), chunk_size,
                         h \o chunk)

\* do_hash: the digest, or None when the file cannot be opened (OSError).
do_hash(t, e, chunk_size) ==
    IF t[e.relative_path].readable
    THEN Some(hexdigest(read_chunks(t[e.relative_path].content, chunk_size, <<>>)))
    ELSE None

\* read_first_bytes.probe: at most num_bytes, b"" when unreadable.
probe(t, e, num_bytes) ==
    IF t[e.relative_path].readable
    THEN SubSeq(t[e.relative_path].content, 1,
                Min(num_bytes, Len(t[e.relative_path].content)))
    ELSE <<>>

\* classify_binary_or_text.is_binary; the contents used here are ASCII or hold
\* the byte 255, which no UTF-8 text holds.
is_binary(chunk) ==
    \/ chunk = <<>>
    \/ \E i \in 1..Len(chunk) : chunk[i] = 0
    \/ \E i \in 1..Len(chunk) : chunk[i] >= 128

\* merge_into_metadata over the hash and classification of the same entries.
merge_into_metadata(t, entries, probe_bytes, chunk_size) ==
    [p \in {e.relative_path : e \in entries} |->
        LET e == CHOOSE x \in entries : x.relative_path = p
        IN  [size |-> Some(e.size),
             time_last_update_ns |-> e.time_last_update_ns,
             hash |-> do_hash(t, e, chunk_size),
             is_binary |-> is_binary(probe(t, e, probe_bytes))]]

----------------------------------------------------------------------------
(* metadata_manager.py: the snapshot file *)

\* The text json.dumps(metadata, indent=2, sort_keys=True) writes, as tokens:
\* "{", one member per key in sorted key order, "}".
TokOpen == [tok |-> "{"]
TokClose == [tok |-> "}"]

json_dumps(metadata) ==
    LET keys == Sorted(DOMAIN metadata)
    IN  <<TokOpen>>
        \o [i \in 1..Len(keys) |-> [tok |-> "member", key |-> keys[i],
                                    value |-> metadata[keys[i]]]]
        \o <<TokClose>>

\* json.load accepts exactly a complete object text.
json_valid(text) ==
    /\ Len(text) >= 2
    /\ text[1] = TokOpen
    /\ text[Len(text)] = TokClose
    /\ \A i \in 2..(Len(text) - 1) : text[i].tok = "member"

json_loads(text) ==
    LET members == {text[i] : i \in 2..(Len(text) - 1)}
    IN  [p \in {m.key : m \in members} |->
            (CHOOSE m \in members : m.key = p).value]

MetaPath == "state.json"

\* Mutant: the text is written straight to the snapshot path.
tmp_path_in_place(metadata_path) == metadata_path

\* metadata_path.with_suffix(metadata_path.suffix + ".tmp")
tmp_path(metadata_path) == metadata_path \o ".tmp"

\* load_metadata: the snapshot, or the exception raised.
load_metadata(fs, metadata_path, metadata_filetype) ==
    IF metadata_filetype # "json" THEN [raises |-> TRUE, value |-> <<>>]
    ELSE IF metadata_path \notin DOMAIN fs THEN [raises |-> FALSE, value |-> <<>>]
    ELSE IF ~json_valid(fs[metadata_path]) THEN [raises |-> TRUE, value |-> <<>>]
    ELSE [raises |-> FALSE, value |-> json_loads(fs[metadata_path])]

NoDiffs == [added |-> <<>>, removed |-> <<>>, moved |-> <<>>, modified |-> <<>>]

----------------------------------------------------------------------------
(* compute_diffs as a pure function: any two snapshots, one call *)

\* Hex digests.
H1 == <<3, 10>>
H2 == <<3, 11>>

\* MetaEntry is a TypedDict with total=False: a loaded entry may lack keys.
DiffEntries ==
    {[size |-> Some(s), time_last_update_ns |-> 1, hash |-> h, is_binary |-> FALSE] :
        s \in {10, 20}, h \in {None, Some(H1)}}
    \cup {[size |-> Some(10), time_last_update_ns |-> 1, hash |-> Some(H2), is_binary |-> FALSE],
          [size |-> Some(10), time_last_update_ns |-> 1, is_binary |-> FALSE],
          [time_last_update_ns |-> 1, hash |-> None, is_binary |-> FALSE]}

DiffInit ==
    /\ \E S \in SUBSET Paths, T \in SUBSET Paths :
        /\ Cardinality(S) + Cardinality(T) <= MaxEntries
        /\ old_metadata \in [S -> DiffEntries]
        /\ new_metadata \in [T -> DiffEntries]
    /\ diffs = NoDiffs
    /\ dpc = "ready"

CallComputeDiffs ==
    /\ dpc = "ready"
    /\ diffs' = compute_diffs(old_metadata, new_metadata)
    /\ dpc' = "done"
    /\ UNCHANGED <<old_metadata, new_metadata>>
    /\ UNCHANGED mainVars

----------------------------------------------------------------------------
(* dirsnap.py: runs of main over a changing tree *)

\* File contents: the text "A" and a two-byte binary content.
Contents == {<<65>>, <<66, 0>>}

\* --ignore lists: none, ["a*"], ["b", "?a"].
IgnoreChoices ==
    {<<>>, <<(<<Lit(1), Star>>)>>, <<(<<Lit(2)>>), (<<Quest, Lit(1)>>)>>}

\* The command lines tried (argparse admits only json/yaml and verbosity 0/1).
Configs ==
    {[ignore |-> i, metadata_filetype |-> "json", chunk_size |-> 2, probe_bytes |-> 2] :
        i \in IgnoreChoices}
    \cup {[ignore |-> <<>>, metadata_filetype |-> "json", chunk_size |-> 1, probe_bytes |-> 1],
          [ignore |-> <<>>, metadata_filetype |-> "yaml", chunk_size |-> 2, probe_bytes |-> 2],
          [ignore |-> <<>>, metadata_filetype |-> "json", chunk_size |-> 0, probe_bytes |-> 2]}

NoConfig == [ignore |-> <<>>, metadata_filetype |-> "json", chunk_size |-> 1, probe_bytes |-> 1]

SavePcs == {"save", "save_opened", "save_written", "saved"}

MainInit ==
    /\ tree = (<<1>> :> [content |-> <<65>>, readable |-> TRUE, mtime |-> 1])
              @@ (<<2>> :> [content |-> <<66, 0>>, readable |-> TRUE, mtime |-> 1])
    /\ dirExists = TRUE
    /\ files = <<>>
    /\ pc = "idle"
    /\ cfg = NoConfig
    /\ exitCode = 0
    /\ outcome = "none"
    /\ raisedAt = "none"
    /\ prevRun = [premise |-> FALSE, built |-> <<>>]
    /\ treeChanged = FALSE
    /\ metaAtStart = <<>>
    /\ readerSaw = "nothing"
    /\ nRuns = 0
    /\ nEnvOps = 0

Idle == pc \in {"idle", "exited"}

\* ---- the tree between runs ----

\* (A change after the last run of a behaviour is seen by no run.)
EnvStep ==
    /\ Idle
    /\ nEnvOps < MaxEnvOps
    /\ nRuns < MaxRuns
    /\ nEnvOps' = nEnvOps + 1
    /\ UNCHANGED <<files, pc, cfg, exitCode, outcome, raisedAt, prevRun,
                   metaAtStart, readerSaw, nRuns>>
    /\ UNCHANGED diffVars

\* A file is created, or rewritten with another content.
EnvWrite ==
    /\ EnvStep
    /\ dirExists
    /\ \E p \in TreePaths, c \in Contents :
        /\ p \in DOMAIN tree \/ Cardinality(DOMAIN tree) < MaxFiles
        /\ p \in DOMAIN tree => tree[p].content # c
        /\ tree' = [q \in DOMAIN tree \cup {p} |->
                      IF q = p
                      THEN [content |-> c,
                            readable |-> IF p \in DOMAIN tree THEN tree[p].readable ELSE TRUE,
                            mtime |-> 2]
                      ELSE tree[q]]
    /\ treeChanged' = TRUE
    /\ UNCHANGED dirExists

\* Only the modification time of a file changes.
EnvTouch ==
    /\ EnvStep
    /\ \E p \in DOMAIN tree :
        tree' = [tree EXCEPT ![p].mtime = 3 - tree[p].mtime]
    /\ UNCHANGED <<treeChanged, dirExists>>

EnvDelete ==
    /\ EnvStep
    /\ \E p \in DOMAIN tree : tree' = [q \in DOMAIN tree \ {p} |-> tree[q]]
    /\ treeChanged' = TRUE
    /\ UNCHANGED dirExists

EnvRename ==
    /\ EnvStep
    /\ \E p \in DOMAIN tree, n \in TreePaths \ DOMAIN tree :
        tree' = [q \in (DOMAIN tree \ {p}) \cup {n} |->
                    IF q = n THEN tree[p] ELSE tree[q]]
    /\ treeChanged' = TRUE
    /\ UNCHANGED dirExists

\* A file becomes unreadable, or readable again.
EnvChmod ==
    /\ EnvStep
    /\ \E p \in DOMAIN tree :
        tree' = [tree EXCEPT ![p].readable = ~tree[p].readable]
    /\ treeChanged' = TRUE
    /\ UNCHANGED dirExists

\* The scanned directory itself is removed with all its files, or made again.
EnvRmdir ==
    /\ EnvStep
    /\ dirExists' = ~dirExists
    /\ tree' = <<>>
    /\ treeChanged' = (treeChanged \/ tree # <<>>)

\* ---- main, lines 41-56: scan, filter, hash, classify, merge, load, diff, report ----

Start ==
    /\ Idle
    /\ nRuns < MaxRuns
    /\ nRuns' = nRuns + 1
    /\ \E c \in Configs :
        LET files_          == scan_subdir(tree, dirExists)
            filtered_files  == filter_patterns(files_, c.ignore)
            merged          == merge_into_metadata(tree, filtered_files,
                                                   c.probe_bytes, c.chunk_size)
            loaded          == load_metadata(files, MetaPath, c.metadata_filetype)
        IN  /\ cfg' = c
            /\ prevRun' = [premise |-> /\ pc = "exited"
                                       /\ outcome = "completed"
                                       /\ cfg.ignore = c.ignore
                                       /\ ~treeChanged,
                           built |-> new_metadata]
            /\ IF c.chunk_size <= 0
               THEN /\ pc' = "except"
                    /\ raisedAt' = "hash_files"
                    /\ new_metadata' = <<>>
                    /\ old_metadata' = <<>>
                    /\ diffs' = NoDiffs
               ELSE IF loaded.raises
               THEN /\ pc' = "except"
                    /\ raisedAt' = "load_metadata"
                    /\ new_metadata' = merged
                    /\ old_metadata' = <<>>
                    /\ diffs' = NoDiffs
               ELSE /\ pc' = "save"
                    /\ raisedAt' = "none"
                    /\ new_metadata' = merged
                    /\ old_metadata' = loaded.value
                    /\ diffs' = compute_diffs(loaded.value, merged)
    /\ metaAtStart' = [n \in DOMAIN files \cap {MetaPath} |-> files[n]]
    /\ outcome' = "running"
    /\ readerSaw' = "nothing"
    /\ UNCHANGED <<tree, dirExists, files, exitCode, treeChanged, nEnvOps, dpc>>

\* ---- save_metadata, lines 83-90 ----

SaveFrame ==
    /\ UNCHANGED <<tree, dirExists, cfg, exitCode, outcome, prevRun, treeChanged,
                   metaAtStart, readerSaw, nRuns, nEnvOps>>
    /\ UNCHANGED diffVars

\* The file type check, then write_text opens the temp file for writing.
SaveOpen ==
    /\ pc = "save"
    /\ IF cfg.metadata_filetype # "json"
       THEN /\ pc' = "except"
            /\ raisedAt' = "save_metadata"
            /\ UNCHANGED files
       ELSE /\ pc' = "save_opened"
            /\ files' = [n \in DOMAIN files \cup {tmp_path(MetaPath)} |->
                            IF n = tmp_path(MetaPath) THEN <<>> ELSE files[n]]
            /\ UNCHANGED raisedAt
    /\ SaveFrame

\* The temp file cannot be opened (OSError): nothing is created.
SaveOpenFail ==
    /\ pc = "save"
    /\ cfg.metadata_filetype = "json"
    /\ pc' = "except"
    /\ raisedAt' = "open"
    /\ UNCHANGED files
    /\ SaveFrame

SaveWrite ==
    /\ pc = "save_opened"
    /\ files' = [files EXCEPT ![tmp_path(MetaPath)] = json_dumps(new_metadata)]
    /\ pc' = "save_written"
    /\ UNCHANGED raisedAt
    /\ SaveFrame

\* The write fails part-way (OSError): a proper prefix of the text is on disk.
SaveWriteFail ==
    /\ pc = "save_opened"
    /\ \E n \in 0..(Len(json_dumps(new_metadata)) - 1) :
        files' = [files EXCEPT ![tmp_path(MetaPath)] =
                     SubSeq(json_dumps(new_metadata), 1, n)]
    /\ pc' = "except"
    /\ raisedAt' = "write_text"
    /\ SaveFrame

\* tmp.replace(metadata_path): an atomic rename.
SaveReplace ==
    /\ pc = "save_written"
    /\ files' = [n \in (DOMAIN files \ {tmp_path(MetaPath)}) \cup {MetaPath} |->
                    IF n = MetaPath THEN files[tmp_path(MetaPath)] ELSE files[n]]
    /\ pc' = "saved"
    /\ UNCHANGED raisedAt
    /\ SaveFrame

SaveReplaceFail ==
    /\ pc = "save_written"
    /\ pc' = "except"
    /\ raisedAt' = "replace"
    /\ UNCHANGED files
    /\ SaveFrame

\* ---- main, lines 49-54 and 59-66: the exit ----

changed(d) ==
    \/ Len(d.added) # 0
    \/ Len(d.removed) # 0
    \/ Len(d.moved) # 0
    \/ Len(d.modified) # 0

\* BaseException.with_traceback takes exactly one argument.
with_traceback_raises(nargs) == nargs # 1

\* The handler: two prints, then sys.exit(2).  An exception raised inside the
\* handler is not caught by it: the interpreter ends with status 1.
handler_exit == IF with_traceback_raises(0) THEN 1 ELSE 2

ExitFrame ==
    /\ treeChanged' = FALSE
    /\ readerSaw' = "nothing"
    /\ UNCHANGED <<tree, dirExists, files, raisedAt, prevRun, metaAtStart,
                   nRuns, nEnvOps, dpc>>

\* sys.exit(1 if changed else 0): SystemExit is no Exception and passes the handler.
Exit ==
    /\ pc = "saved"
    /\ exitCode' = IF changed(diffs) THEN 1 ELSE 0
    /\ outcome' = "completed"
    /\ pc' = "exited"
    /\ UNCHANGED <<cfg, old_metadata, new_metadata, diffs>>
    /\ ExitFrame

\* (What a failed run had computed is lost with the process.)
Handler ==
    /\ pc = "except"
    /\ exitCode' = handler_exit
    /\ outcome' = "raised"
    /\ pc' = "exited"
    /\ cfg' = NoConfig
    /\ old_metadata' = <<>>
    /\ new_metadata' = <<>>
    /\ diffs' = NoDiffs
    /\ ExitFrame

\* The process is killed (SIGKILL) while in save_metadata.
Crash ==
    /\ pc \in SavePcs
    /\ exitCode' = 137
    /\ outcome' = "killed"
    /\ pc' = "exited"
    /\ UNCHANGED <<cfg, old_metadata, new_metadata, diffs>>
    /\ ExitFrame

\* ---- another process reads the snapshot path while main runs ----

Reader ==
    /\ pc \in SavePcs
    /\ readerSaw' = IF MetaPath \notin DOMAIN files THEN "absent"
                    ELSE IF json_valid(files[MetaPath]) THEN "complete"
                    ELSE "partial"
    /\ UNCHANGED <<tree, dirExists, files, pc, cfg, exitCode, outcome, raisedAt,
                   prevRun, treeChanged, metaAtStart, nRuns, nEnvOps>>
    /\ UNCHANGED diffVars

----------------------------------------------------------------------------
(* Specifications *)

Init ==
    /\ MainInit
    /\ old_metadata = <<>>
    /\ new_metadata = <<>>
    /\ diffs = NoDiffs
    /\ dpc = "unused"

Next ==
    \/ EnvWrite \/ EnvTouch \/ EnvDelete \/ EnvRename \/ EnvChmod \/ EnvRmdir
    \/ Start
    \/ SaveOpen \/ SaveOpenFail \/ SaveWrite \/ SaveWriteFail
    \/ SaveReplace \/ SaveReplaceFail
    \/ Exit \/ Handler \/ Crash
    \/ Reader

\* Runs of main, changes of the tree between them, a concurrent reader.
Spec == Init /\ [][Next]_vars

\* compute_diffs applied to any two snapshots.
InitDiff ==
    /\ DiffInit
    /\ MainInit

NextDiff == CallComputeDiffs

SpecDiff == InitDiff /\ [][NextDiff]_vars

----------------------------------------------------------------------------
(* Properties of compute_diffs (specification SpecDiff) *)

OldOnly == DOMAIN old_metadata \ DOMAIN new_metadata
NewOnly == DOMAIN new_metadata \ DOMAIN old_metadata
Common  == DOMAIN old_metadata \cap DOMAIN new_metadata

MovedOld == {diffs.moved[i][1] : i \in 1..Len(diffs.moved)}
MovedNew == {diffs.moved[i][2] : i \in 1..Len(diffs.moved)}

NullHash(data, p) == "hash" \notin DOMAIN data[p] \/ data[p].hash = None

\* The paths of `paths` whose entry in `data` carries the digest h.
WithDigest(data, paths, h) ==
    {p \in paths : ~NullHash(data, p) /\ data[p].hash = Some(h)}

\* Every digest some entry of either snapshot carries.
Digests ==
    {old_metadata[p].hash[1] : p \in {q \in DOMAIN old_metadata : ~NullHash(old_metadata, q)}}
    \cup {new_metadata[p].hash[1] : p \in {q \in DOMAIN new_metadata : ~NullHash(new_metadata, q)}}

\* 1 for the lexicographically smallest path of S, 2 for the next, ...
Rank(p, S) == Cardinality({q \in S : LexLess(q, p)}) + 1

Ascending(s) == \A i \in 1..(Len(s) - 1) : LexLess(s[i], s[i + 1])

\* C1: the categories do not overlap: added, removed, modified and the old
\* and the new paths of the moved pairs are pairwise disjoint, no path is in
\* two moved pairs, added with the new paths of moved is new - old, removed
\* with the old paths of moved is old - new, modified is within old & new.
Thm_C1 ==
    dpc = "done" =>
        LET A == Range(diffs.added)
            R == Range(diffs.removed)
            M == Range(diffs.modified)
        IN  /\ A \cap R = {} /\ A \cap M = {} /\ A \cap MovedOld = {}
            /\ A \cap MovedNew = {} /\ R \cap M = {} /\ R \cap MovedOld = {}
            /\ R \cap MovedNew = {} /\ M \cap MovedOld = {}
            /\ M \cap MovedNew = {} /\ MovedOld \cap MovedNew = {}
            /\ \A i, j \in 1..Len(diffs.moved) :
                   i # j => /\ diffs.moved[i][1] # diffs.moved[j][1]
                            /\ diffs.moved[i][2] # diffs.moved[j][2]
            /\ A \cup MovedNew = NewOnly
            /\ R \cup MovedOld = OldOnly
            /\ M \subseteq Common

\* A move, a plain removal and a plain addition in one diff.
Wit_C1 ==
    /\ dpc = "done"
    /\ Len(diffs.moved) = 1
    /\ Len(diffs.removed) = 1
    /\ Len(diffs.added) = 1

\* C2: for a digest carried by N old-only and M new-only paths exactly
\* min(N, M) pairs are formed, the i-th smallest old path with the i-th
\* smallest new path; the other old paths are removed, the other new added.
Thm_C2 ==
    dpc = "done" =>
        \A h \in Digests :
            LET O == WithDigest(old_metadata, OldOnly, h)
                N == WithDigest(new_metadata, NewOnly, h)
                k == Min(Cardinality(O), Cardinality(N))
            IN  /\ Cardinality({i \in 1..Len(diffs.moved) :
                                  diffs.moved[i][1] \in O \/ diffs.moved[i][2] \in N}) = k
                /\ \A o \in O, n \in N :
                       (\E i \in 1..Len(diffs.moved) : diffs.moved[i] = <<o, n>>)
                           <=> (Rank(o, O) = Rank(n, N))
                /\ \A o \in O : Rank(o, O) > k =>
                       o \in Range(diffs.removed) /\ o \notin MovedOld
                /\ \A n \in N : Rank(n, N) > k =>
                       n \in Range(diffs.added) /\ n \notin MovedNew

\* Two old candidates and one new one for the same digest.
Wit_C2 ==
    /\ dpc = "done"
    /\ \E h \in Digests :
        /\ Cardinality(WithDigest(old_metadata, OldOnly, h)) = 2
        /\ Cardinality(WithDigest(new_metadata, NewOnly, h)) = 1
    /\ Len(diffs.moved) = 1
    /\ Len(diffs.removed) = 1

\* The same entry with another timestamp and classification.
Retimed(data, p, t, b) ==
    [data EXCEPT ![p] = [@ EXCEPT !.time_last_update_ns = t, !.is_binary = b]]

\* C3: a common path is modified exactly when both hashes are known and
\* differ, or a hash is unknown and the sizes differ; changing only
\* time_last_update_ns or is_binary of an entry leaves modified as it is.
Thm_C3 ==
    dpc = "done" =>
        /\ \A p \in Common :
            LET oh == IF NullHash(old_metadata, p) THEN None ELSE old_metadata[p].hash
                nh == IF NullHash(new_metadata, p) THEN None ELSE new_metadata[p].hash
                osz == IF "size" \in DOMAIN old_metadata[p] THEN old_metadata[p].size ELSE None
                nsz == IF "size" \in DOMAIN new_metadata[p] THEN new_metadata[p].size ELSE None
            IN  p \in Range(diffs.modified) <=>
                    IF oh # None /\ nh # None THEN oh # nh ELSE osz # nsz
        /\ \A tb \in {<<2, FALSE>>, <<1, TRUE>>, <<2, TRUE>>} :
            /\ \A p \in DOMAIN old_metadata :
                   modified_of(Retimed(old_metadata, p, tb[1], tb[2]), new_metadata)
                       = diffs.modified
            /\ \A p \in DOMAIN new_metadata :
                   modified_of(old_metadata, Retimed(new_metadata, p, tb[1], tb[2]))
                       = diffs.modified

\* The size decides: one common path without a hash whose size changed, one
\* with both hashes equal whose size changed as well.
Wit_C3 ==
    /\ dpc = "done"
    /\ \E p \in Common :
        /\ NullHash(old_metadata, p)
        /\ Get(old_metadata[p], "size") # Get(new_metadata[p], "size")
        /\ p \in Range(diffs.modified)
    /\ \E p \in Common :
        /\ ~NullHash(old_metadata, p)
        /\ Get(old_metadata[p], "hash") = Get(new_metadata[p], "hash")
        /\ Get(old_metadata[p], "size") # Get(new_metadata[p], "size")
        /\ p \notin Range(diffs.modified)

\* C4: a path whose hash is null or missing is in no moved pair; when it is
\* only in old it is removed, when it is only in new it is added.
Thm_C4 ==
    dpc = "done" =>
        /\ \A p \in MovedOld : ~NullHash(old_metadata, p)
        /\ \A p \in MovedNew : ~NullHash(new_metadata, p)
        /\ \A p \in OldOnly : NullHash(old_metadata, p) => p \in Range(diffs.removed)
        /\ \A p \in NewOnly : NullHash(new_metadata, p) => p \in Range(diffs.added)

\* A null-hash path on each side, next to a real move.
Wit_C4 ==
    /\ dpc = "done"
    /\ \E p \in OldOnly : NullHash(old_metadata, p) /\ p \in Range(diffs.removed)
    /\ \E p \in NewOnly : NullHash(new_metadata, p) /\ p \in Range(diffs.added)
    /\ Len(diffs.moved) = 1

\* C5: every list compute_diffs returns is in ascending path order, the
\* moved list in ascending order of the old path of its pairs.
Claim_C5 ==
    dpc = "done" =>
        /\ Ascending(diffs.added)
        /\ Ascending(diffs.removed)
        /\ Ascending(diffs.modified)
        /\ Ascending([i \in 1..Len(diffs.moved) |-> diffs.moved[i][1]])

----------------------------------------------------------------------------
(* Properties of the runs of main (specification Spec) *)

\* The snapshot path as a reader finds it: no file, or its text.
SnapshotFile == [n \in DOMAIN files \cap {MetaPath} |-> files[n]]

InSave == pc \in SavePcs \/ raisedAt \in {"open", "write_text", "replace"}

\* C6: throughout save_metadata, a failed write and a kill included, the
\* snapshot path holds the complete previous snapshot (or nothing, if there
\* was none) or the complete new one, and no reader sees a partial text.
Thm_C6 ==
    /\ MetaPath \in DOMAIN files => json_valid(files[MetaPath])
    /\ (InSave /\ outcome \in {"running", "killed"}) =>
           SnapshotFile \in {metaAtStart, MetaPath :> json_dumps(new_metadata)}
    /\ outcome = "completed" => SnapshotFile = (MetaPath :> json_dumps(new_metadata))
    /\ readerSaw # "partial"

\* The write of a new snapshot fails part-way over an older, different one,
\* while a reader has read the snapshot path.
Wit_C6 ==
    /\ pc = "except"
    /\ raisedAt = "write_text"
    /\ MetaPath \in DOMAIN files
    /\ files[MetaPath] # json_dumps(new_metadata)
    /\ Len(files[tmp_path(MetaPath)]) >= 1
    /\ readerSaw = "complete"

\* C7: a run in which an exception was raised after argument parsing ends
\* with exit code 2, and exit codes 0 and 1 come only from completed runs.
Claim_C7 ==
    pc = "exited" =>
        /\ outcome = "raised" => exitCode = 2
        /\ exitCode \in {0, 1} => outcome = "completed"

\* C8: with ignore patterns given, no path matching one of them is in the new
\* snapshot or in any category of the reported diff.
Claim_C8 ==
    cfg.ignore # <<>> =>
        \A p \in Paths :
            matches_any(p, cfg.ignore) =>
                /\ p \notin DOMAIN new_metadata
                /\ p \notin Range(diffs.added)
                /\ p \notin Range(diffs.removed)
                /\ p \notin Range(diffs.modified)
                /\ p \notin MovedOld
                /\ p \notin MovedNew

\* C9: once save_metadata has raised after creating its temp file, the temp
\* file is gone.
Claim_C9 ==
    (pc = "except" /\ raisedAt \in {"write_text", "replace"}) =>
        tmp_path(MetaPath) \notin DOMAIN files

\* C10 as stated: the run that follows a completed run with the same ignore
\* patterns over an unchanged tree loads the snapshot that run built,
\* reports no change and exits with code 0.  (Stated here for the runs that
\* end by themselves with no I/O failure in save_metadata.)
Claim_C10 ==
    (/\ pc = "exited"
     /\ prevRun.premise
     /\ outcome # "killed"
     /\ raisedAt \notin {"open", "write_text", "replace"}) =>
        /\ old_metadata = prevRun.built
        /\ diffs = NoDiffs
        /\ exitCode = 0

\* C10 amended: ... when that following run completes as well (storage format
\* json, chunk size > 0, its save succeeds); and whenever it gets as far as
\* the diff, it has loaded the snapshot the first run built and reports no
\* change.
Thm_C10 ==
    /\ (pc = "exited" /\ prevRun.premise /\ outcome = "completed") =>
           /\ old_metadata = prevRun.built
           /\ diffs = NoDiffs
           /\ exitCode = 0
    /\ (pc \in SavePcs /\ prevRun.premise) =>
           /\ old_metadata = prevRun.built
           /\ diffs = NoDiffs

\* The second of two completed runs, with a file touched in between: the
\* changed timestamp recorded in the new snapshot.
Wit_C10 ==
    /\ pc = "exited"
    /\ prevRun.premise
    /\ outcome = "completed"
    /\ exitCode = 0
    /\ \E p \in DOMAIN new_metadata :
        /\ p \in DOMAIN old_metadata
        /\ new_metadata[p].time_last_update_ns # old_metadata[p].time_last_update_ns

====
